---- MODULE Spec2Model ----
(***************************************************************************)
(* Integration engine of src/algorithms/model.ts: evolve, stepODE,         *)
(* advanceState, sumDerivatives, derivative, fluxes.                       *)
(*                                                                         *)
(* Numbers.  The code computes in IEEE doubles.  Here a real quantity      *)
(* (people, rates per day, days) is a fixed-point integer counting         *)
(* multiples of 1/Unit; sums and differences are exact, every product and  *)
(* quotient rounds to the nearest multiple, as each of the code's          *)
(* floating-point operations rounds.  Timestamps (pop.time, tMax) are      *)
(* whole milliseconds, the unit of the Date objects stepODE builds.        *)
(*                                                                         *)
(* Arrays.  A per-age array arr[age], age = 0..n-1, is the sequence        *)
(* arr[a], a = age + 1 in 1..n.                                            *)
(***************************************************************************)
EXTENDS Integers, Sequences, FiniteSets, TLC

\* ------------------------------------------------------------------ bounds
\* fixed-point resolution: one unit is 1/Unit person, 1/Unit per day
Unit == 1200
\* number of age groups
NumAges == 2
\* length of the exposed (Erlang) chain of every age group
NumStages == 2
\* number of evolve calls along one trajectory
MaxCalls == 2

Ages == 1..NumAges
Stages == 1..NumStages

\* ------------------------------------------------------------- arithmetic
\* a / b rounded to the nearest integer, ties upwards (b > 0)
Round(a, b) == (2 * a + b) \div (2 * b)

\* x * y of two fixed-point numbers
Mul(x, y) == Round(x * y, Unit)

\* x / y of two fixed-point numbers (y > 0)
Div(x, y) == Round(x * Unit, y)

\* the literal n (a whole number) as a fixed-point number
Num(n) == n * Unit

Max(a, b) == IF a > b THEN a ELSE b
Min(a, b) == IF a < b THEN a ELSE b
Abs(a) == IF a < 0 THEN -a ELSE a

\* the element of a one-element set.  Only({ e : x \in {v} }) is e with the
\* constant x holding the value of v: `const x = v; ... e`
Only(S) == CHOOSE x \in S : TRUE

\* the array a loop `for (i = 0; i < n; i++) arr[i] = f[i]` fills: f[1..n],
\* every element computed once, in order
RECURSIVE fill(_, _)
fill(f, n) == IF n = 0 THEN << >> ELSE Append(fill(f, n - 1), f[n])

arrayOf(f) == fill(f, Cardinality(DOMAIN f))

\* arr.reduce((a, b) => a + b, 0)
RECURSIVE sumFrom(_, _)
sumFrom(arr, i) == IF i > Len(arr) THEN 0 ELSE arr[i] + sumFrom(arr, i + 1)

sum(arr) == sumFrom(arr, 1)

\* ------------------------------------------------------------------- time
msPerDay == 24 * 60 * 60 * 1000

\* const eulerStep = 0.5
eulerStep == Round(Unit, 2)

\* Math.round(x) of a fixed-point x: the nearest whole number, ties upwards
mathRound(x) == Round(x, Unit)

\* new Date(time + d * msPerDay).valueOf() for d fixed-point days: the sum,
\* cut to whole milliseconds towards zero as the Date constructor cuts it.
\* d * msPerDay / Unit is computed as d * q + d * r / Unit with
\* msPerDay = q * Unit + r, which keeps every intermediate value small.
DateAt(time, d) ==
  LET q == msPerDay \div Unit
      r == msPerDay % Unit
      whole == time + d * q + ((d * r) \div Unit)
      frac == (d * r) % Unit
  IN IF whole < 0 /\ frac > 0 THEN whole + 1 ELSE whole

\* P.rate.infection(time): the caller's callable.  The callables drawn here
\* are the step functions "base before the switch time, mitigated from it on".
infection(P, time) ==
  IF time < P.rate.infection.from THEN P.rate.infection.base
  ELSE P.rate.infection.mitigated

\* ----------------------------------------------------------------- fluxes
fluxes(time, pop, P) ==
  LET fracInfected == Div(sum(pop.current.infectious), P.populationServed)
      n == Len(pop.current.infectious)
  IN [ susceptible |->
         arrayOf([age \in 1..n |->
            P.importsPerDay[age]
            + Mul(Mul(Mul(Num(1) - P.frac.isolated[age], infection(P, time)),
                      pop.current.susceptible[age]),
                  fracInfected)]),
       exposed |->
         arrayOf([age \in 1..n |->
            arrayOf([i \in 1..Len(pop.current.exposed[age]) |->
               Mul(P.rate.latency, pop.current.exposed[age][i])
               * Len(pop.current.exposed[age])])]),
       infectious |->
         [ recovered |-> arrayOf([age \in 1..n |-> Mul(pop.current.infectious[age], P.rate.recovery[age])]),
           severe    |-> arrayOf([age \in 1..n |-> Mul(pop.current.infectious[age], P.rate.severe[age])]) ],
       severe |->
         [ recovered |-> arrayOf([age \in 1..n |-> Mul(pop.current.severe[age], P.rate.discharge[age])]),
           critical  |-> arrayOf([age \in 1..n |-> Mul(pop.current.severe[age], P.rate.critical[age])]) ],
       critical |->
         [ severe   |-> arrayOf([age \in 1..n |-> Mul(pop.current.critical[age], P.rate.stabilize[age])]),
           fatality |-> arrayOf([age \in 1..n |-> Mul(pop.current.critical[age], P.rate.fatality[age])]) ],
       overflow |->
         [ severe   |-> arrayOf([age \in 1..n |-> Mul(pop.current.overflow[age], P.rate.stabilize[age])]),
           fatality |-> arrayOf([age \in 1..n |-> Mul(pop.current.overflow[age], P.rate.overflowFatality[age])]) ] ]

\* ------------------------------------------------------------- derivative
\* the flux entering exposed stage i of one age group: fluxIn of the forEach
fluxInAt(flux, age, i) ==
  IF i = 1 THEN flux.susceptible[age] ELSE flux.exposed[age][i - 1]

\* fluxInAfter with the flux out of the last exposed stage dropped
fluxInDropped(flux, age) == 0

\* fluxIn after the forEach over the exposed chain
fluxInAfter(flux, age) ==
  IF Len(flux.exposed[age]) = 0 THEN flux.susceptible[age]
  ELSE flux.exposed[age][Len(flux.exposed[age])]

derivative(flux) ==
  LET n == Len(flux.susceptible)
  IN [ current |->
         [ susceptible |-> arrayOf([age \in 1..n |-> -flux.susceptible[age]]),
           exposed |->
             arrayOf([age \in 1..n |->
                arrayOf([i \in 1..Len(flux.exposed[age]) |->
                   fluxInAt(flux, age, i) - flux.exposed[age][i]])]),
           infectious |->
             arrayOf([age \in 1..n |->
                fluxInAfter(flux, age) - flux.infectious.severe[age]
                - flux.infectious.recovered[age]]),
           severe |->
             arrayOf([age \in 1..n |->
                flux.infectious.severe[age] + flux.critical.severe[age]
                + flux.overflow.severe[age] - flux.severe.critical[age]
                - flux.severe.recovered[age]]),
           critical |->
             arrayOf([age \in 1..n |->
                flux.severe.critical[age] - flux.critical.severe[age]
                - flux.critical.fatality[age]]),
           overflow |->
             arrayOf([age \in 1..n |-> -(flux.overflow.severe[age] + flux.overflow.fatality[age])]) ],
       cumulative |->
         [ recovered    |-> arrayOf([age \in 1..n |-> flux.infectious.recovered[age] + flux.severe.recovered[age]]),
           hospitalized |-> arrayOf([age \in 1..n |-> flux.infectious.severe[age] + flux.infectious.severe[age]]),
           critical     |-> arrayOf([age \in 1..n |-> flux.severe.recovered[age] + flux.severe.recovered[age]]),
           fatality     |-> arrayOf([age \in 1..n |-> flux.critical.fatality[age] + flux.overflow.fatality[age]]) ] ]

\* --------------------------------------------------------- sumDerivatives
\* sum over i of scale[i] * grads[i][kind][compartment][age]
RECURSIVE weighted(_, _, _, _, _, _)
weighted(grads, scale, kind, compartment, age, i) ==
  IF i > Len(grads) THEN 0
  ELSE Mul(scale[i], grads[i][kind][compartment][age])
       + weighted(grads, scale, kind, compartment, age, i + 1)

RECURSIVE weightedAt(_, _, _, _, _)
weightedAt(grads, scale, age, j, i) ==
  IF i > Len(grads) THEN 0
  ELSE Mul(scale[i], grads[i].current.exposed[age][j])
       + weightedAt(grads, scale, age, j, i + 1)

sumDerivatives(grads, scale) ==
  LET n == Len(grads[1].current.susceptible)
      w(kind, compartment) ==
        arrayOf([age \in 1..n |-> weighted(grads, scale, kind, compartment, age, 1)])
  IN [ current |->
         [ susceptible |-> w("current", "susceptible"),
           exposed |->
             arrayOf([age \in 1..n |->
                arrayOf([j \in 1..Len(grads[1].current.exposed[age]) |->
                   weightedAt(grads, scale, age, j, 1)])]),
           infectious |-> w("current", "infectious"),
           severe     |-> w("current", "severe"),
           critical   |-> w("current", "critical"),
           overflow   |-> w("current", "overflow") ],
       cumulative |->
         [ recovered    |-> w("cumulative", "recovered"),
           hospitalized |-> w("cumulative", "hospitalized"),
           critical     |-> w("cumulative", "critical"),
           fatality     |-> w("cumulative", "fatality") ] ]

\* ----------------------------------------------------------- advanceState
\* gz without the floor
gzNoFloor(x) == x

gz(x) == IF x > 0 THEN x ELSE 0

\* update(age, kind, compartment)
update(pop, tdot, dt, age, kind, compartment) ==
  gz(pop[kind][compartment][age] + Mul(dt, tdot[kind][compartment][age]))

\* updateAt(age, 'current', 'exposed', i)
updateAt(pop, tdot, dt, age, i) ==
  gz(pop.current.exposed[age][i] + Mul(dt, tdot.current.exposed[age][i]))

\* newPop after the loop over the age groups; time is what Date.now() returned
eulerUpdate(pop, tdot, dt, now) ==
  LET n == Len(pop.current.infectious)
      u(kind, compartment) ==
        arrayOf([age \in 1..n |-> update(pop, tdot, dt, age, kind, compartment)])
  IN [ time |-> now,
       current |->
         [ susceptible |-> u("current", "susceptible"),
           exposed |->
             arrayOf([age \in 1..n |->
                arrayOf([i \in 1..Len(pop.current.exposed[age]) |->
                   updateAt(pop, tdot, dt, age, i)])]),
           infectious |-> u("current", "infectious"),
           severe     |-> u("current", "severe"),
           critical   |-> u("current", "critical"),
           overflow   |-> u("current", "overflow") ],
       cumulative |->
         [ recovered    |-> u("cumulative", "recovered"),
           hospitalized |-> u("cumulative", "hospitalized"),
           critical     |-> u("cumulative", "critical"),
           fatality     |-> u("cumulative", "fatality") ] ]

\* moveToOverflow emptying every visited group instead of taking the deficit
RECURSIVE moveAllToOverflow(_, _, _)
moveAllToOverflow(cur, freeICUBeds, age) ==
  IF ~(freeICUBeds < 0 /\ age >= 1) THEN [cur |-> cur, freeICUBeds |-> freeICUBeds]
  ELSE moveAllToOverflow(
         [cur EXCEPT !.overflow[age] = @ + cur.critical[age],
                     !.critical[age] = 0],
         freeICUBeds + cur.critical[age], age - 1)

\* moveToOverflow comparing against the budget's sign the wrong way round:
\* it never moves anybody
moveNobodyToOverflow(cur, freeICUBeds, age) ==
  [cur |-> cur, freeICUBeds |-> freeICUBeds]

\* for (age = length - 1; freeICUBeds < 0 && age >= 0; age--): the loop from
\* its position `age` on, on newPop.current = cur; yields cur and freeICUBeds
RECURSIVE moveToOverflow(_, _, _)
moveToOverflow(cur, freeICUBeds, age) ==
  IF ~(freeICUBeds < 0 /\ age >= 1) THEN [cur |-> cur, freeICUBeds |-> freeICUBeds]
  ELSE IF cur.critical[age] > -freeICUBeds
       THEN moveToOverflow(
              [cur EXCEPT !.critical[age] = @ + freeICUBeds,
                          !.overflow[age] = @ - freeICUBeds],
              0, age - 1)
       ELSE moveToOverflow(
              [cur EXCEPT !.overflow[age] = @ + cur.critical[age],
                          !.critical[age] = 0],
              freeICUBeds + cur.critical[age], age - 1)

\* pullFromOverflow that stops after the first age group it visits
pullFromFirstOnly(cur, freeICUBeds, age) ==
  IF ~(freeICUBeds > 0 /\ age <= Len(cur.critical)) THEN [cur |-> cur, freeICUBeds |-> freeICUBeds]
  ELSE IF cur.overflow[age] > freeICUBeds
       THEN [cur |-> [cur EXCEPT !.critical[age] = @ + freeICUBeds,
                                 !.overflow[age] = @ - freeICUBeds],
             freeICUBeds |-> 0]
       ELSE [cur |-> [cur EXCEPT !.critical[age] = @ + cur.overflow[age],
                                 !.overflow[age] = 0],
             freeICUBeds |-> freeICUBeds - cur.overflow[age]]

\* for (age = 0; freeICUBeds > 0 && age < length; age++): the loop from its
\* position `age` on
RECURSIVE pullFromOverflow(_, _, _)
pullFromOverflow(cur, freeICUBeds, age) ==
  IF ~(freeICUBeds > 0 /\ age <= Len(cur.critical)) THEN [cur |-> cur, freeICUBeds |-> freeICUBeds]
  ELSE IF cur.overflow[age] > freeICUBeds
       THEN pullFromOverflow(
              [cur EXCEPT !.critical[age] = @ + freeICUBeds,
                          !.overflow[age] = @ - freeICUBeds],
              0, age + 1)
       ELSE pullFromOverflow(
              [cur EXCEPT !.critical[age] = @ + cur.overflow[age],
                          !.overflow[age] = 0],
              freeICUBeds - cur.overflow[age], age + 1)

\* newPop is the Euler update; over is newPop.current and freeICUBeds after
\* the first loop; the second loop runs on them
advanceState(pop, tdot, dt, nICUBeds, now) ==
  Only({
    Only({ [newPop EXCEPT !.current = pullFromOverflow(over.cur, over.freeICUBeds, 1).cur]
           : over \in { moveToOverflow(newPop.current,
                                       nICUBeds - sum(newPop.current.critical),
                                       Len(newPop.current.critical)) } })
    : newPop \in { eulerUpdate(pop, tdot, dt, now) } })

\* ---------------------------------------------------------------- stepODE
\* [1 / 6, 1 / 3, 1 / 3, 1 / 6]
rk4Weights ==
  << Div(Num(1), Num(6)), Div(Num(1), Num(3)), Div(Num(1), Num(3)), Div(Num(1), Num(6)) >>

\* derivative(fluxes(time, pop, P))
slopeAt(time, pop, P) ==
  Only({ derivative(flux) : flux \in { fluxes(time, pop, P) } })

\* derivative(fluxes(time, advanceState(pop, tdot, dt, P.ICUBeds), P))
slopeAfter(time, pop, tdot, dt, P, now) ==
  Only({ slopeAt(time, state, P)
         : state \in { advanceState(pop, tdot, dt, P.ICUBeds, now) } })

\* tdot of stepODE, k1 to k4 bound from the last line upwards; the k-th
\* advanceState call reads the clock as now + k - 1
stepDerivative(pop, P, dt, now) ==
  Only({
    Only({
      Only({
        Only({ sumDerivatives(<<k1, k2, k3, k4>>, rk4Weights)
               : k4 \in { slopeAfter(DateAt(pop.time, dt), pop, k3, dt, P, now + 2) } })
        : k3 \in { slopeAfter(DateAt(pop.time, Div(dt, Num(2))), pop, k2,
                              Div(dt, Num(2)), P, now + 1) } })
      : k2 \in { slopeAfter(DateAt(pop.time, Div(dt, Num(2))), pop, k1,
                            Div(dt, Num(2)), P, now) } })
    : k1 \in { slopeAt(DateAt(pop.time, 0), pop, P) } })

\* stepODE without `state.time = t2.valueOf()`
stepKeepsClock(pop, P, dt, now) ==
  Only({ advanceState(pop, tdot, dt, P.ICUBeds, now + 3)
         : tdot \in { stepDerivative(pop, P, dt, now) } })

stepODE(pop, P, dt, now) ==
  Only({ [advanceState(pop, tdot, dt, P.ICUBeds, now + 3)
            EXCEPT !.time = DateAt(pop.time, dt)]
         : tdot \in { stepDerivative(pop, P, dt, now) } })

\* ----------------------------------------------------------------- evolve
\* const dT = tMax - pop.time
spanOf(pop, tMax) == Num(tMax - pop.time)

\* Math.round(dT / eulerStep)
roundedSteps(pop, tMax) == mathRound(Div(spanOf(pop, tMax), eulerStep))

\* nStepsOf taking the magnitude of the rounded count
nStepsAbs(pop, tMax) == Max(1, Abs(roundedSteps(pop, tMax)))

\* const nSteps = Math.max(1, Math.round(dT / eulerStep))
nStepsOf(pop, tMax) == Max(1, roundedSteps(pop, tMax))

\* const dt = dT / nSteps
dtOf(pop, tMax) == Div(spanOf(pop, tMax), Num(nStepsOf(pop, tMax)))

\* the for loop from its position i on: the states stepODE returned, in order
RECURSIVE evolveLoop(_, _, _, _, _, _)
evolveLoop(currState, P, dt, i, nSteps, now) ==
  IF ~(i < nSteps) THEN << >>
  ELSE Only({ <<next>> \o evolveLoop(next, P, dt, i + 1, nSteps, now)
              : next \in { stepODE(currState, P, dt, now + 4 * i) } })

\* the states of the sub-steps of evolve(pop, P, tMax, sample)
evolveSteps(pop, P, tMax, now) ==
  Only({ evolveLoop(pop, P, dt, 0, nStepsOf(pop, tMax), now)
         : dt \in { dtOf(pop, tMax) } })

\* evolve(pop, P, tMax, sample): currState after the loop
evolve(pop, P, tMax, now) ==
  Only({ steps[Len(steps)] : steps \in { evolveSteps(pop, P, tMax, now) } })

\* ------------------------------------------------------------------ state
VARIABLES
  pop,    \* the SimulationTimePoint the caller holds: the trajectory's latest
  P,      \* the ModelParams of the run
  calls,  \* evolve calls made so far
  last,   \* the latest evolve call: its arguments and what it did
  adv     \* one direct advanceState call: its arguments and its result

vars == <<pop, P, calls, last, adv>>

\* all arrays of length n over the values S
RECURSIVE Arrays(_, _)
Arrays(S, n) ==
  IF n = 0 THEN {<< >>}
  ELSE {Append(a, x) : a \in Arrays(S, n - 1), x \in S}

\* the array holding v for every age group
all(v) == arrayOf([age \in 1..NumAges |-> v])

\* the array holding v for the oldest age group and 0 for the others
oldestOnly(v) == arrayOf([age \in 1..NumAges |-> IF age = NumAges THEN v ELSE 0])

\* an exposed chain with v in its first stage
chain(v) == arrayOf([i \in 1..NumStages |-> IF i = 1 THEN v ELSE 0])

\* the two readings of Date.now() of two runs of the same call
FirstRun == 1000 * 60
SecondRun == FirstRun + 1000 * 5

\* ---------------------------------------------------- trajectory inputs
InitialStates ==
  { [ time |-> 0,
      current |->
        [ susceptible |-> all(Num(20)),
          exposed     |-> all(chain(Num(1))),
          infectious  |-> all(Num(3)),
          severe      |-> all(Num(2)),
          critical    |-> critical,
          overflow    |-> overflow ],
      cumulative |->
        [ recovered    |-> all(Num(1)),
          hospitalized |-> all(Num(1)),
          critical     |-> all(Num(1)),
          fatality     |-> all(Num(1)) ] ]
    : critical \in {all(Num(5)), oldestOnly(Num(6))},
      overflow \in {all(0), all(Num(1))} }

Parameters ==
  { [ ICUBeds          |-> beds,
      populationServed |-> Num(60),
      importsPerDay    |-> imports,
      frac |-> [ isolated |-> all(Unit \div 5) ],
      rate |->
        [ latency   |-> Unit \div 3,
          infection |-> [ base |-> Unit, mitigated |-> Unit \div 2, from |-> from ],
          recovery  |-> all(Unit \div 4),
          severe    |-> arrayOf([age \in 1..NumAges |-> Unit \div (12 - age)]),
          discharge |-> all(Unit \div 5),
          critical  |-> arrayOf([age \in 1..NumAges |-> Unit \div (10 - age)]),
          stabilize |-> all(Unit \div 6),
          fatality  |-> arrayOf([age \in 1..NumAges |-> Unit \div (9 - age)]),
          overflowFatality |-> all(Unit \div 4) ] ]
    : beds \in {Num(4), Num(7), Num(200)},
      imports \in {all(0), all(Unit \div 2)},
      from \in {msPerDay \div 2, 20 * msPerDay} }

\* tMax - pop.time of the evolve calls made, in milliseconds
Spans == {-1, 0, 1, 2}

\* ------------------------------------------------- advanceState inputs
AdvanceInputs ==
  { [ pop |->
        [ time |-> 0,
          current |->
            [ susceptible |-> all(Num(4)),
              exposed     |-> all(chain(Num(1))),
              infectious  |-> all(Num(3)),
              severe      |-> all(Num(2)),
              critical    |-> critical,
              overflow    |-> overflow ],
          cumulative |->
            [ recovered    |-> all(Num(1)),
              hospitalized |-> all(Num(1)),
              critical     |-> all(Num(1)),
              fatality     |-> all(Num(1)) ] ],
      tdot |->
        [ current |->
            [ susceptible |-> all(-Num(6)),
              exposed     |-> all(chain(-Num(3))),
              infectious  |-> all(Num(1)),
              severe      |-> all(-Num(1)),
              critical    |-> all(dCritical),
              overflow    |-> all(dOverflow) ],
          cumulative |->
            [ recovered    |-> all(Num(2)),
              hospitalized |-> all(Num(2)),
              critical     |-> all(Num(2)),
              fatality     |-> all(Num(2)) ] ],
      dt       |-> dt,
      nICUBeds |-> beds ]
    : critical \in Arrays({0, Num(2), Num(5)}, NumAges),
      overflow \in Arrays({0, Num(3)}, NumAges),
      dCritical \in {-Num(4), 0, Num(2)},
      dOverflow \in {-Num(5), 0},
      dt \in {eulerStep, Num(1), -Num(1)},
      beds \in {0, Num(3), Num(7), Num(12)} }

\* ------------------------------------------------------------------- Init
NoCall == [ called |-> FALSE ]
NoAdvance == [ done |-> FALSE ]

\* a run of the simulation: a state and parameters in the caller's hands
InitRun ==
  /\ pop \in InitialStates
  /\ P \in Parameters
  /\ calls = 0
  /\ last = NoCall
  /\ adv = NoAdvance

\* advanceState about to be applied to arguments of its own
InitAdvance ==
  /\ pop \in {s \in InitialStates : s.current.overflow = all(0) /\ s.current.critical = all(Num(5))}
  /\ P \in {p \in Parameters : p.ICUBeds = Num(200) /\ p.importsPerDay = all(0)
                               /\ p.rate.infection.from = 20 * msPerDay}
  /\ calls = MaxCalls
  /\ last = NoCall
  /\ \E in \in AdvanceInputs :
       adv = [ done |-> FALSE, pop |-> in.pop, tdot |-> in.tdot, dt |-> in.dt,
               nICUBeds |-> in.nICUBeds ]

Init == InitRun \/ InitAdvance

\* ---------------------------------------------------------------- actions
\* some field of pop would go below zero in pop + dt * tdot
hitsFloor(state, tdot, dt) ==
  \E age \in 1..Len(state.current.infectious) :
    \/ \E c \in {"susceptible", "infectious", "severe", "critical", "overflow"} :
         state.current[c][age] + Mul(dt, tdot.current[c][age]) < 0
    \/ \E i \in 1..Len(state.current.exposed[age]) :
         state.current.exposed[age][i] + Mul(dt, tdot.current.exposed[age][i]) < 0
    \/ \E c \in {"recovered", "hospitalized", "critical", "fatality"} :
         state.cumulative[c][age] + Mul(dt, tdot.cumulative[c][age]) < 0

\* the caller calls evolve(pop, P, tMax, sample) and keeps the returned state
Evolve(tMax) ==
  /\ calls < MaxCalls
  /\ \E steps \in { evolveSteps(pop, P, tMax, FirstRun) }, dt \in { dtOf(pop, tMax) } :
       /\ pop' = steps[Len(steps)]
       /\ last' = [ called  |-> TRUE,
                    pop     |-> pop,
                    tMax    |-> tMax,
                    rounded |-> roundedSteps(pop, tMax),
                    nSteps  |-> Len(steps),
                    dt      |-> dt,
                    floorHit |->
                      \E i \in 1..Len(steps) :
                        \E state \in { (<<pop>> \o steps)[i] } :
                          \E tdot \in { stepDerivative(state, P, dt, FirstRun + 4 * (i - 1)) } :
                            hitsFloor(state, tdot, dt),
                    twin    |-> evolve(pop, P, tMax, SecondRun) ]
  /\ calls' = calls + 1
  /\ UNCHANGED <<P, adv>>

\* advanceState(pop, tdot, dt, nICUBeds) is applied to the arguments in adv
Advance ==
  /\ adv.done = FALSE
  /\ adv # NoAdvance
  /\ adv' = [ adv EXCEPT !.done = TRUE ] @@
            [ out |-> advanceState(adv.pop, adv.tdot, adv.dt, adv.nICUBeds, FirstRun),
              euler |-> eulerUpdate(adv.pop, adv.tdot, adv.dt, FirstRun) ]
  /\ UNCHANGED <<pop, P, calls, last>>

Next ==
  \/ \E span \in Spans : Evolve(pop.time + span)
  \/ Advance

Spec == Init /\ [][Next]_vars

\* ----------------------------------------------------------------- claims
StockNames == {"susceptible", "infectious", "severe", "critical", "overflow"}
CumulativeNames == {"recovered", "hospitalized", "critical", "fatality"}

\* every stock and cumulative field of every age group is >= 0
NonNegative(state) ==
  \A age \in 1..Len(state.current.infectious) :
    /\ \A c \in StockNames : state.current[c][age] >= 0
    /\ \A i \in 1..Len(state.current.exposed[age]) : state.current.exposed[age][i] >= 0
    /\ \A c \in CumulativeNames : state.cumulative[c][age] >= 0

\* sum over the age groups of all stock compartments
StockTotal(state) ==
  sum(state.current.susceptible) + sum(arrayOf([age \in 1..Len(state.current.exposed) |-> sum(state.current.exposed[age])]))
  + sum(state.current.infectious) + sum(state.current.severe)
  + sum(state.current.critical) + sum(state.current.overflow)

\* the stocks together with the people who left them, recovered or dead
PeopleTotal(state) ==
  StockTotal(state) + sum(state.cumulative.recovered) + sum(state.cumulative.fatality)

\* sum of arr[b] over the age groups b older than age
RECURSIVE sumOlder(_, _)
sumOlder(arr, age) == IF age >= Len(arr) THEN 0 ELSE arr[age + 1] + sumOlder(arr, age + 1)

\* sum of arr[b] over the age groups b younger than age
RECURSIVE sumYounger(_, _)
sumYounger(arr, age) == IF age <= 1 THEN 0 ELSE arr[age - 1] + sumYounger(arr, age - 1)

\* what a sum of n rounded sub-steps over all fields may be off by, in units:
\* each field of each sub-step carries four rounded weightings, scaled by
\* dt <= 1/2, and one rounded product dt * tdot
RoundingSlack(n) == 2 * n * NumAges * (NumStages + 7)

\* the latest evolve call ran forward, with beds for everybody and no imports
Unconstrained ==
  /\ last.called
  /\ last.tMax > last.pop.time
  /\ P.ICUBeds >= StockTotal(last.pop)
  /\ \A age \in Ages : P.importsPerDay[age] = 0
  /\ ~last.floorHit

\* C1: after every advanceState call with nICUBeds >= 0 the critical
\* compartments of all age groups sum to at most nICUBeds; so do those of
\* every state evolve returns.
C1_CapacityInvariant ==
  /\ adv.done /\ adv.nICUBeds >= 0 => sum(adv.out.current.critical) <= adv.nICUBeds
  /\ last.called /\ P.ICUBeds >= 0 => sum(pop.current.critical) <= P.ICUBeds

\* an advanceState call whose Euler update left more critical patients than beds
C1_Witness ==
  /\ adv.done
  /\ sum(adv.euler.current.critical) > adv.nICUBeds
  /\ adv.nICUBeds > 0
  /\ sum(adv.out.current.critical) = adv.nICUBeds

\* C2: every stock and cumulative field of every age group is >= 0 in the
\* state advanceState returns and in every state evolve returns.
C2_NonNegativity ==
  /\ adv.done => NonNegative(adv.out)
  /\ last.called => NonNegative(pop)

\* an advanceState call with a negative step: the floor acted on a cumulative
\* field and on a stock, and patients were moved to overflow afterwards
C2_Witness ==
  /\ adv.done
  /\ adv.dt < 0
  /\ adv.pop.cumulative.recovered[1] + Mul(adv.dt, adv.tdot.cumulative.recovered[1]) < 0
  /\ adv.out.cumulative.recovered[1] = 0
  /\ adv.pop.current.severe[1] > 0
  /\ sum(adv.euler.current.critical) > adv.nICUBeds

\* C3: the cumulative fields of the state an evolve call returns are >= those
\* of the state passed to it.
C3_MonotoneCumulatives ==
  last.called =>
    \A age \in Ages : \A c \in CumulativeNames :
      pop.cumulative[c][age] >= last.pop.cumulative[c][age]

\* C4: over capacity, advanceState moves min(critical[a], remaining deficit)
\* from critical[a] to overflow[a], oldest group first; critical = [5, 5],
\* overflow = [0, 0], zero derivative and 7 beds give [5, 2] and [0, 3].
C4_OverCapacityOrder ==
  /\ adv.done /\ sum(adv.euler.current.critical) > adv.nICUBeds =>
       \A age \in 1..Len(adv.euler.current.critical) :
         LET deficit == sum(adv.euler.current.critical) - adv.nICUBeds
             remaining == Max(0, deficit - sumOlder(adv.euler.current.critical, age))
             moved == Min(adv.euler.current.critical[age], remaining)
         IN /\ adv.out.current.critical[age] = adv.euler.current.critical[age] - moved
            /\ adv.out.current.overflow[age] = adv.euler.current.overflow[age] + moved
  /\ ( /\ adv.done
       /\ adv.pop.current.critical = <<Num(5), Num(5)>>
       /\ adv.pop.current.overflow = <<0, 0>>
       /\ adv.tdot.current.critical = <<0, 0>>
       /\ adv.tdot.current.overflow = <<0, 0>>
       /\ adv.nICUBeds = Num(7) )
     => /\ adv.out.current.critical = <<Num(5), Num(2)>>
        /\ adv.out.current.overflow = <<0, Num(3)>>

\* critical = [5, 5], overflow = [0, 0], zero derivative, 7 beds, advanced
C4_Witness ==
  /\ adv.done
  /\ adv.pop.current.critical = <<Num(5), Num(5)>>
  /\ adv.pop.current.overflow = <<0, 0>>
  /\ adv.tdot.current.critical = <<0, 0>>
  /\ adv.tdot.current.overflow = <<0, 0>>
  /\ adv.nICUBeds = Num(7)
  /\ adv.out.current.overflow = <<0, Num(3)>>

\* C5: with spare capacity, advanceState moves min(overflow[a], remaining
\* free beds) from overflow[a] to critical[a], youngest group first; no
\* returned state has overflow > 0 somewhere while beds are free.
C5_SpareCapacity ==
  /\ adv.done /\ sum(adv.euler.current.critical) < adv.nICUBeds =>
       \A age \in 1..Len(adv.euler.current.critical) :
         LET free == adv.nICUBeds - sum(adv.euler.current.critical)
             remaining == Max(0, free - sumYounger(adv.euler.current.overflow, age))
             pulled == Min(adv.euler.current.overflow[age], remaining)
         IN /\ adv.out.current.critical[age] = adv.euler.current.critical[age] + pulled
            /\ adv.out.current.overflow[age] = adv.euler.current.overflow[age] - pulled
  /\ adv.done =>
       ~ ( /\ \E age \in 1..Len(adv.out.current.overflow) : adv.out.current.overflow[age] > 0
           /\ sum(adv.out.current.critical) < adv.nICUBeds )
  /\ last.called =>
       ~ ( /\ \E age \in Ages : pop.current.overflow[age] > 0
           /\ sum(pop.current.critical) < P.ICUBeds )

\* free beds ran out in the second age group: the first was emptied of its
\* overflow, the second keeps some
C5_Witness ==
  /\ adv.done
  /\ sum(adv.euler.current.critical) < adv.nICUBeds
  /\ adv.euler.current.overflow[1] > 0
  /\ adv.out.current.overflow[1] = 0
  /\ adv.out.current.overflow[2] > 0
  /\ adv.out.current.overflow[2] < adv.euler.current.overflow[2]

\* C6: evolve applies stepODE max(1, round((tMax - pop.time) / half a day))
\* times, the times being the milliseconds stepODE reads and writes.
C6_SubStepCount ==
  last.called =>
    last.nSteps = Max(1, Round(last.tMax - last.pop.time, msPerDay \div 2))

\* C7: for tMax > pop.time the state evolve returns has time = tMax.
C7_TargetReached ==
  last.called /\ last.tMax > last.pop.time => pop.time = last.tMax

\* C8: for tMax < pop.time evolve rounds to a negative step count, makes
\* exactly one sub-step of the negative size tMax - pop.time and returns a
\* state whose time is earlier than the input's.
C8_NegativeSpan ==
  last.called /\ last.tMax < last.pop.time =>
    /\ last.rounded < 0
    /\ last.nSteps = 1
    /\ last.dt = Num(last.tMax - last.pop.time)
    /\ last.dt < 0
    /\ pop.time < last.pop.time
    /\ pop.time = last.pop.time + (last.tMax - last.pop.time) * msPerDay

\* an evolve call with tMax earlier than the state's time
C8_Witness ==
  /\ last.called
  /\ last.tMax < last.pop.time
  /\ last.pop.time > 0

\* C9 as stated: forward, with beds for everybody, no imports and no field on
\* the zero floor, the stock compartments sum to the same total before and
\* after evolve (up to the rounding of the arithmetic).
C9_StockConserved ==
  Unconstrained =>
    Abs(StockTotal(pop) - StockTotal(last.pop)) <= RoundingSlack(last.nSteps)

\* C9 amended: the stock compartments plus cumulative recovered plus
\* cumulative fatality sum to the same total before and after evolve (up to
\* the rounding of the arithmetic).
C9_PeopleConserved ==
  Unconstrained =>
    Abs(PeopleTotal(pop) - PeopleTotal(last.pop)) <= RoundingSlack(last.nSteps)

\* a forward call under the claim's conditions during which people recovered
\* and died in numbers far above the rounding slack
C9_Witness ==
  /\ Unconstrained
  /\ sum(pop.cumulative.recovered) - sum(last.pop.cumulative.recovered)
       > 4 * RoundingSlack(last.nSteps)
  /\ sum(pop.cumulative.fatality) - sum(last.pop.cumulative.fatality)
       > 4 * RoundingSlack(last.nSteps)

\* C10: the state evolve returns is the same in every field, time included,
\* whatever Date.now() returned during the call: a second run of the same
\* call at another wall-clock time returns the same state.
C10_Determinism ==
  last.called => pop = last.twin

\* a call of several sub-steps, run at two wall-clock times, whose fluxes
\* depended on the time passed to rate.infection
C10_Witness ==
  /\ last.called
  /\ last.nSteps > 1
  /\ FirstRun # SecondRun
  /\ P.rate.infection.from = msPerDay \div 2
  /\ pop.time > last.pop.time
  /\ pop = last.twin

====
